---------------------------- MODULE Spec2Model ----------------------------
(***************************************************************************)
(* libAKMtastic (libs/akmtastic/akmtastic.cpp): the Akmtastic engine, its  *)
(* two calibrators and the Vector arithmetic they use.                     *)
(*                                                                         *)
(* A C++ float is modelled as a fixed-point number: the integer n stands   *)
(* for n / Unit, and every product and quotient is rounded to the nearest  *)
(* multiple of 1 / Unit, as float arithmetic rounds to the nearest         *)
(* representable value.                                                    *)
(***************************************************************************)
EXTENDS Integers, Sequences, FiniteSets, TLC

(***************************************************************************)
(* Number representation                                                   *)
(***************************************************************************)

\* resolution of the fixed-point stand-in for float
Unit == 100

Abs(n) == IF n < 0 THEN -n ELSE n

\* n / d rounded to the nearest integer (d > 0)
Round(n, d) == (2 * n + d) \div (2 * d)

\* int -> float conversion
ToFloat(i) == i * Unit

FMul(a, b) == Round(a * b, Unit)

FDiv(a, b) == Round(a * Unit, b)

RECURSIVE SqrtSearch(_, _, _)
SqrtSearch(n, lo, hi) ==
    IF lo >= hi THEN lo
    ELSE LET mid == (lo + hi + 1) \div 2
         IN  IF mid * mid <= n THEN SqrtSearch(n, mid, hi)
                               ELSE SqrtSearch(n, lo, mid - 1)

\* sqrtf of a sum of squares of fixed-point numbers, rounded to the nearest:
\* n is in units of 1 / Unit^2, the result in units of 1 / Unit; hi is any
\* number known to be at least the root
Sqrtf(n, hi) ==
    LET r == SqrtSearch(n, 0, hi)
    IN  IF n - r * r > r THEN r + 1 ELSE r

(***************************************************************************)
(* class Vector                                                            *)
(***************************************************************************)

\* Vector::Vector()
Vector_zero == <<0, 0, 0>>

\* Vector::Vector(float x, float y, float z), called with int arguments
Vector_new(x, y, z) == <<ToFloat(x), ToFloat(y), ToFloat(z)>>

\* void Vector::multiply(const Vector &m)
Vector_multiplyV(v, m) == <<FMul(v[1], m[1]), FMul(v[2], m[2]), FMul(v[3], m[3])>>

\* void Vector::multiply(float m)
Vector_multiply(v, m) == <<FMul(v[1], m), FMul(v[2], m), FMul(v[3], m)>>

\* void Vector::divide(float d)
Vector_divide(v, d) == <<FDiv(v[1], d), FDiv(v[2], d), FDiv(v[3], d)>>

\* void Vector::add(const Vector &m)
Vector_add(v, m) == <<v[1] + m[1], v[2] + m[2], v[3] + m[3]>>

\* float Vector::length() const
Vector_length(v) ==
    Sqrtf(v[1] * v[1] + v[2] * v[2] + v[3] * v[3], Abs(v[1]) + Abs(v[2]) + Abs(v[3]))

\* float Vector::dot(const Vector &o) const
Vector_dot(v, o) == Round(v[1] * o[1] + v[2] * o[2] + v[3] * o[3], Unit)

\* const Vector &Average::push(const Vector &v)
Average_push(v) == v

(***************************************************************************)
(* class Calibrator, AccCalibrator, MagCalibrator                          *)
(***************************************************************************)

REFRESH == 10

ERROR == (5 * Unit) \div 100

GRAVITY_SMOOTH == (80 * Unit) \div 100

\* Calibrator::Calibrator(): scale and translation are default-constructed
\* Vectors
Calibrator_new == [scale |-> Vector_zero, translation |-> Vector_zero]

\* virtual void Calibrator::push(const Vector &val)
Calibrator_push(c, val) == c

\* virtual void Calibrator::fix(Vector &val): the new value of val
Calibrator_fix(c, val) == Vector_multiplyV(Vector_add(val, c.translation), c.scale)

\* virtual void Calibrator::reset(void)
Calibrator_reset(c) == c

\* AccCalibrator::AccCalibrator()
AccCalibrator_new == [scale |-> Vector_zero, translation |-> Vector_zero, g |-> Vector_zero]

\* the update of g at the head of AccCalibrator::push
AccCalibrator_gravity(g, val) ==
    Vector_add(Vector_multiply(g, GRAVITY_SMOOTH),
               Vector_multiply(val, ToFloat(1) - GRAVITY_SMOOTH))

\* a trust condition that compares the lengths only
AccCalibrator_trusted_LengthOnly(g, val) ==
    LET al == Vector_length(val)
        gl == Vector_length(g)
    IN  IF al = 0 \/ gl = 0 THEN FALSE ELSE Abs(al - gl) < ERROR

\* the condition under which AccCalibrator::push hands g (already updated)
\* to Calibrator::push
AccCalibrator_trusted(g, val) ==
    LET al == Vector_length(val)
        gl == Vector_length(g)
    IN  IF al = 0 \/ gl = 0 THEN FALSE
        ELSE LET an == Vector_divide(val, al)
                 gn == Vector_divide(g, gl)
             IN  Abs(al - gl) < ERROR /\ Vector_dot(an, gn) > ToFloat(1) - ERROR

\* a push that returns on a zero-length sample before it updates g
AccCalibrator_push_ZeroFirst(c, val) ==
    IF Vector_length(val) = 0 THEN c
    ELSE [c EXCEPT !.g = AccCalibrator_gravity(c.g, val)]

\* virtual void AccCalibrator::push(const Vector &val)
AccCalibrator_push(c, val) ==
    LET c1 == [c EXCEPT !.g = AccCalibrator_gravity(c.g, val)]
    IN  IF AccCalibrator_trusted(c1.g, val) THEN Calibrator_push(c1, c1.g) ELSE c1

\* virtual void AccCalibrator::fix(Vector &val)
AccCalibrator_fix(c, val) == Calibrator_fix(c, val)

\* a reset that also puts the correction back to the identity
AccCalibrator_reset_ToIdentity(c) ==
    [c EXCEPT !.g = Vector_zero, !.translation = Vector_zero,
              !.scale = <<ToFloat(1), ToFloat(1), ToFloat(1)>>]

\* virtual void AccCalibrator::reset(void)
AccCalibrator_reset(c) == Calibrator_reset([c EXCEPT !.g = Vector_zero])

\* MagCalibrator::MagCalibrator()
MagCalibrator_new == Calibrator_new

\* virtual void MagCalibrator::push(const Vector &val)
MagCalibrator_push(c, val) == c

\* virtual void MagCalibrator::fix(Vector &val): the new value of val
MagCalibrator_fix(c, val) == val


(***************************************************************************)
(* class Akmtastic.  A method is an operator from the object (and the      *)
(* arguments) to [obj |-> the object afterwards, ret |-> what it returns]. *)
(***************************************************************************)

\* Akmtastic::Akmtastic: oriCalculated has no initializer, so the object
\* starts with whatever value b the memory holds
Akmtastic_new(b) ==
    [accCalibrator |-> AccCalibrator_new,
     accVal        |-> Vector_zero,
     magCalibrator |-> MagCalibrator_new,
     magVal        |-> Vector_zero,
     oriVal        |-> Vector_zero,
     oriCalculated |-> b,
     started       |-> FALSE,
     fd            |-> -1]

\* a start without the check of started
start_Unguarded(e, path) == [obj |-> [e EXCEPT !.started = TRUE], ret |-> 0]

\* int Akmtastic::start(const char *path)
start(e, path) ==
    IF e.started THEN [obj |-> e, ret |-> -1]
    ELSE [obj |-> [e EXCEPT !.started = TRUE], ret |-> 0]

\* a stop that also resets the accelerometer calibrator
stop_Resetting(e) ==
    IF ~e.started THEN [obj |-> e, ret |-> -1]
    ELSE [obj |-> [e EXCEPT !.started = FALSE,
                            !.accCalibrator = AccCalibrator_reset(e.accCalibrator)],
          ret |-> 0]

\* int Akmtastic::stop(void)
stop(e) ==
    IF ~e.started THEN [obj |-> e, ret |-> -1]
    ELSE [obj |-> [e EXCEPT !.started = FALSE], ret |-> 0]

\* the vector pushAcceleration hands to accCalibrator.push: the sample,
\* converted with 720.f / sensitivity and passed through accAverage
accSample(x, y, z, sensitivity) ==
    Average_push(Vector_multiply(Vector_new(x, y, z),
                                 FDiv(ToFloat(720), ToFloat(sensitivity))))

\* a pushAcceleration that keeps its sample in magVal
pushAcceleration_IntoMag(e, x, y, z, sensitivity) ==
    LET val == accSample(x, y, z, sensitivity)
        cal == AccCalibrator_push(e.accCalibrator, val)
    IN  [obj |-> [e EXCEPT !.accCalibrator = cal,
                           !.magVal = AccCalibrator_fix(cal, val),
                           !.accVal = val,
                           !.oriCalculated = FALSE],
         ret |-> 0]

\* int Akmtastic::pushAcceleration(int x, int y, int z, int sensitivity)
pushAcceleration(e, x, y, z, sensitivity) ==
    LET val == accSample(x, y, z, sensitivity)
        cal == AccCalibrator_push(e.accCalibrator, val)
    IN  [obj |-> [e EXCEPT !.accCalibrator = cal,
                           !.accVal = AccCalibrator_fix(cal, val),
                           !.oriCalculated = FALSE],
         ret |-> 0]

\* the vector pushMagnetic hands to magCalibrator.push
magSample(x, y, z) == Average_push(Vector_new(x, y, z))

\* a pushMagnetic that drops the sample when status is not zero
pushMagnetic_StatusGated(e, x, y, z, status, period) ==
    IF status # 0 THEN [obj |-> e, ret |-> -1]
    ELSE [obj |-> [e EXCEPT !.magVal = magSample(x, y, z), !.oriCalculated = FALSE],
          ret |-> 0]

\* int Akmtastic::pushMagnetic(int x, int y, int z, int status, const int period)
pushMagnetic(e, x, y, z, status, period) ==
    LET val == magSample(x, y, z)
        cal == MagCalibrator_push(e.magCalibrator, val)
    IN  [obj |-> [e EXCEPT !.magCalibrator = cal,
                           !.magVal = MagCalibrator_fix(cal, val),
                           !.oriCalculated = FALSE],
         ret |-> 0]

\* a getOrientation that returns what it computes from the cached vectors
\* without storing it in oriVal
getOrientation_Unstored(e) ==
    [obj |-> [e EXCEPT !.oriCalculated = TRUE],
     ret |-> IF ~e.oriCalculated THEN e.magVal ELSE e.oriVal]

\* a getOrientation that reports the z component of the cached magnetic
\* vector as the azimuth, without bringing it into [0, 360)
getOrientation_RawAzimuth(e) ==
    [obj |-> [e EXCEPT !.oriCalculated = TRUE],
     ret |-> <<e.magVal[3], e.oriVal[2], e.oriVal[3]>>]

\* const Vector &Akmtastic::getOrientation(void) const
getOrientation(e) ==
    [obj |-> IF ~e.oriCalculated THEN [e EXCEPT !.oriCalculated = TRUE] ELSE e,
     ret |-> e.oriVal]

\* const Vector &Akmtastic::getMagnetic(void) const
getMagnetic(e) == [obj |-> e, ret |-> e.magVal]

\* unsigned int Akmtastic::getCalibrationGoodness(void)
getCalibrationGoodness(e) == [obj |-> e, ret |-> 0]

\* a recalibrate that also drops the cached vectors and marks the
\* orientation stale
recalibrate_Everything(e) ==
    [obj |-> [e EXCEPT !.accCalibrator = AccCalibrator_reset(e.accCalibrator),
                       !.accVal = Vector_zero,
                       !.magVal = Vector_zero,
                       !.oriCalculated = FALSE],
     ret |-> <<>>]

\* void Akmtastic::recalibrate(void)
recalibrate(e) ==
    [obj |-> [e EXCEPT !.accCalibrator = AccCalibrator_reset(e.accCalibrator)],
     ret |-> <<>>]

\* int Akmtastic::changeFormFactor(int formFactor)
changeFormFactor(e, formFactor) == [obj |-> e, ret |-> 0]

(***************************************************************************)
(* The SEMC_API wrappers.  The handle s is <<>> when null and <<object>>   *)
(* when it points to an object.  A wrapper is an operator from the handle  *)
(* (and the arguments) to its outcome: self, the handle afterwards; ret,   *)
(* <<n>> when it returns the int n and <<>> when it is void; used, whether *)
(* it dereferenced the handle; gone, for                                   *)
(* AKM_Release of an object, <<the object as it was, the object as its     *)
(* destructor left it>>; data, what it wrote to the sensors_event_t.       *)
(***************************************************************************)

Outcome(s, ret, used) ==
    [self |-> s, ret |-> ret, used |-> used, gone |-> <<>>, data |-> <<>>]

\* Akmtastic::~Akmtastic(void): the object as the destructor leaves it
Akmtastic_delete(e) == IF e.started THEN stop(e).obj ELSE e

\* int AKM_Init(int, const register_map_ak897x *, const int16_t [3][3]): a
\* plain new expression does not yield null, so the -1 return is not taken;
\* b is the value oriCalculated starts with
AKM_Init(s, b) == Outcome(<<Akmtastic_new(b)>>, <<0>>, FALSE)

\* void AKM_Release(void)
AKM_Release(s) ==
    IF s = <<>> THEN Outcome(<<>>, <<>>, FALSE)
    ELSE [Outcome(<<>>, <<>>, TRUE) EXCEPT !.gone = <<s[1], Akmtastic_delete(s[1])>>]

\* int AKM_Start(const char *path)
AKM_Start(s, path) ==
    IF s = <<>> THEN Outcome(s, <<-1>>, FALSE)
    ELSE Outcome(<<start(s[1], path).obj>>, <<start(s[1], path).ret>>, TRUE)

\* int AKM_Stop(const char *path)
AKM_Stop(s, path) ==
    IF s = <<>> THEN Outcome(s, <<-1>>, FALSE)
    ELSE Outcome(<<stop(s[1]).obj>>, <<stop(s[1]).ret>>, TRUE)

\* an AKM_SaveAcc without the check of self: with self null it calls
\* pushAcceleration on the null pointer
AKM_SaveAcc_Unguarded(s, x, y, z, sensitivity) ==
    IF s = <<>> THEN Outcome(s, <<0>>, TRUE)
    ELSE Outcome(<<pushAcceleration(s[1], x, y, z, sensitivity).obj>>, <<0>>, TRUE)

\* int AKM_SaveAcc(int acc_x, int acc_y, int acc_z, int acc_sensitivity)
AKM_SaveAcc(s, x, y, z, sensitivity) ==
    IF s = <<>> THEN Outcome(s, <<-1>>, FALSE)
    ELSE Outcome(<<pushAcceleration(s[1], x, y, z, sensitivity).obj>>, <<0>>, TRUE)

\* int AKM_SaveMag(int mag_x, int mag_y, int mag_z, int mag_status, const int period)
AKM_SaveMag(s, x, y, z, status, period) ==
    IF s = <<>> THEN Outcome(s, <<-1>>, FALSE)
    ELSE Outcome(<<pushMagnetic(s[1], x, y, z, status, period).obj>>, <<0>>, TRUE)

\* int AKM_GetOrientationValues(sensors_event_t *data): data is
\* <<azimuth, pitch, roll>>
AKM_GetOrientationValues(s) ==
    IF s = <<>> THEN Outcome(s, <<-1>>, FALSE)
    ELSE LET val == getOrientation(s[1]).ret
         IN  [Outcome(<<getOrientation(s[1]).obj>>, <<0>>, TRUE)
                 EXCEPT !.data = <<val[1], val[2], val[3]>>]

\* int AKM_GetMagneticValues(sensors_event_t *data): data is <<x, y, z>>
AKM_GetMagneticValues(s) ==
    IF s = <<>> THEN Outcome(s, <<-1>>, FALSE)
    ELSE LET val == getMagnetic(s[1]).ret
         IN  [Outcome(<<getMagnetic(s[1]).obj>>, <<0>>, TRUE)
                 EXCEPT !.data = <<val[1], val[2], val[3]>>]

\* unsigned int AKM_GetCalibrationGoodness(void)
AKM_GetCalibrationGoodness(s) ==
    IF s = <<>> THEN Outcome(s, <<0>>, FALSE)
    ELSE Outcome(<<getCalibrationGoodness(s[1]).obj>>,
                 <<getCalibrationGoodness(s[1]).ret>>, TRUE)

\* void AKM_ForceReCalibration(void)
AKM_ForceReCalibration(s) ==
    IF s # <<>> THEN Outcome(<<recalibrate(s[1]).obj>>, <<>>, TRUE)
    ELSE Outcome(s, <<>>, FALSE)

\* int AKM_ChangeFormFactor(int formFactorNumber)
AKM_ChangeFormFactor(s, formFactorNumber) ==
    IF s = <<>> THEN Outcome(s, <<-1>>, FALSE)
    ELSE Outcome(<<changeFormFactor(s[1], formFactorNumber).obj>>,
                 <<changeFormFactor(s[1], formFactorNumber).ret>>, TRUE)

(***************************************************************************)
(* The arguments the caller passes                                         *)
(***************************************************************************)

\* accelerometer samples <<x, y, z, sensitivity>> of the general runs: rest,
\* 1.0 along x (in two encodings) and 0.5 the other way.  The sensitivity is
\* a positive divisor throughout: 720.f / 0 is not modelled.
AccInputs ==
    {<<0, 0, 0, 720>>, <<1, 0, 0, 720>>, <<2, 0, 0, 1440>>, <<-1, 0, 0, 1440>>}

\* accelerometer samples at the magnitude of standard gravity: rest, 9.8
\* along x (in two encodings) and 4.9 the other way
GravityInputs ==
    {<<0, 0, 0, 7200>>, <<98, 0, 0, 7200>>, <<49, 0, 0, 3600>>, <<-49, 0, 0, 7200>>}

\* accelerometer samples of the runs of the wrappers: rest and 0.1 along x
WrapperAccInputs == {<<0, 0, 0, 720>>, <<1, 0, 0, 7200>>}

\* objects that may be lost before AKM_Init is no longer called on a live
\* handle
MaxLost == 2

\* magnetometer samples <<x, y, z>>
MagInputs == {<<0, 0, 0>>, <<20, 0, -40>>}

Statuses == {0, 1}

Periods == {10, 20}

Paths == {"/dev/akm8973"}

FormFactors == {0, 1}

\* "no value yet" for the recorded vectors
None == <<>>

\* what AccCalibrator::push(val) hands to Calibrator::push: the updated g
\* when the sample is trusted, nothing (None) otherwise
AccCalibrator_handed(c, val) ==
    LET g1 == AccCalibrator_gravity(c.g, val)
    IN  IF AccCalibrator_trusted(g1, val) THEN g1 ELSE None

\* static Akmtastic *self = NULL: self is <<>> when null and <<object>> when
\* it points to an object
NULL == <<>>

(***************************************************************************)
(* State                                                                   *)
(***************************************************************************)

VARIABLES
    eng,       \* the engine (an Akmtastic object)
    twin,      \* a second engine, given the same calls as eng except for the
               \* status and period of pushMagnetic
    last,      \* the latest call on eng: [op, args, ret]
    lastTwin,  \* the latest call on twin
    magIn,     \* the vector the latest pushMagnetic handed to magCalibrator
    oriSeen,   \* what getOrientation returned, if called since the last push
    nTrusted,  \* how many of the latest pushAcceleration calls in a row had
               \* accCalibrator hand g to Calibrator::push (up to REFRESH)
    folded,    \* what the latest pushAcceleration since the last recalibrate
               \* had accCalibrator hand to Calibrator::push, if anything
    self,      \* the global handle of the AKM_* wrappers
    lost,      \* the started flags of the objects that were allocated, never
               \* deleted and that self no longer points to
    akm        \* the latest AKM_* call: [op, ret, used, gone, data]

akmVars == <<self, lost, akm>>

vars == <<eng, twin, last, lastTwin, magIn, oriSeen, nTrusted, folded, self, lost, akm>>

\* args: for pushAcceleration the vector handed to accCalibrator, for
\* pushMagnetic <<status, period>>, for getOrientation the value of oriSeen
\* at the call, for recalibrate the value of g at the call
Call(op, args, ret) == [op |-> op, args |-> args, ret |-> ret]

\* the record of a wrapper call whose outcome is r
AkmCall(op, r) ==
    [op |-> op, ret |-> r.ret, used |-> r.used, gone |-> r.gone, data |-> r.data]

Init ==
    /\ \E b \in BOOLEAN : eng = Akmtastic_new(b)
    /\ \E b \in BOOLEAN : twin = Akmtastic_new(b)
    /\ last = Call("new", <<>>, 0)
    /\ lastTwin = Call("new", <<>>, 0)
    /\ magIn = None
    /\ oriSeen = None
    /\ nTrusted = 0
    /\ folded = None
    /\ self = NULL
    /\ lost = <<>>
    /\ akm = AkmCall("none", Outcome(NULL, <<>>, FALSE))

Start ==
    \E path \in Paths :
        /\ eng' = start(eng, path).obj
        /\ twin' = start(twin, path).obj
        /\ last' = Call("start", <<>>, start(eng, path).ret)
        /\ lastTwin' = Call("start", <<>>, start(twin, path).ret)
        /\ UNCHANGED <<magIn, oriSeen, nTrusted, folded>>
        /\ UNCHANGED akmVars

Stop ==
    /\ eng' = stop(eng).obj
    /\ twin' = stop(twin).obj
    /\ last' = Call("stop", <<>>, stop(eng).ret)
    /\ lastTwin' = Call("stop", <<>>, stop(twin).ret)
    /\ UNCHANGED <<magIn, oriSeen, nTrusted, folded>>
    /\ UNCHANGED akmVars

PushAccelerationFrom(inputs) ==
    \E a \in inputs :
        LET val == accSample(a[1], a[2], a[3], a[4])
            g1  == AccCalibrator_gravity(eng.accCalibrator.g, val)
        IN  /\ eng' = pushAcceleration(eng, a[1], a[2], a[3], a[4]).obj
            /\ twin' = pushAcceleration(twin, a[1], a[2], a[3], a[4]).obj
            /\ last' = Call("pushAcceleration", val,
                            pushAcceleration(eng, a[1], a[2], a[3], a[4]).ret)
            /\ lastTwin' = Call("pushAcceleration", val,
                                pushAcceleration(twin, a[1], a[2], a[3], a[4]).ret)
            /\ nTrusted' = IF ~AccCalibrator_trusted(g1, val) THEN 0
                           ELSE IF nTrusted < REFRESH THEN nTrusted + 1
                           ELSE nTrusted
            /\ folded' = AccCalibrator_handed(eng.accCalibrator, val)
            /\ oriSeen' = None
            /\ UNCHANGED magIn
            /\ UNCHANGED akmVars

PushAcceleration == PushAccelerationFrom(AccInputs)

PushGravity == PushAccelerationFrom(GravityInputs)

PushMagnetic ==
    \E m \in MagInputs, st \in Statuses, pd \in Periods,
       stTwin \in Statuses, pdTwin \in Periods :
        /\ eng' = pushMagnetic(eng, m[1], m[2], m[3], st, pd).obj
        /\ twin' = pushMagnetic(twin, m[1], m[2], m[3], stTwin, pdTwin).obj
        /\ last' = Call("pushMagnetic", <<st, pd>>,
                        pushMagnetic(eng, m[1], m[2], m[3], st, pd).ret)
        /\ lastTwin' = Call("pushMagnetic", <<stTwin, pdTwin>>,
                            pushMagnetic(twin, m[1], m[2], m[3], stTwin, pdTwin).ret)
        /\ magIn' = magSample(m[1], m[2], m[3])
        /\ oriSeen' = None
        /\ UNCHANGED <<nTrusted, folded>>
        /\ UNCHANGED akmVars

GetOrientation ==
    /\ eng' = getOrientation(eng).obj
    /\ twin' = getOrientation(twin).obj
    /\ last' = Call("getOrientation", oriSeen, getOrientation(eng).ret)
    /\ lastTwin' = Call("getOrientation", oriSeen, getOrientation(twin).ret)
    /\ oriSeen' = getOrientation(eng).ret
    /\ UNCHANGED <<magIn, nTrusted, folded>>
    /\ UNCHANGED akmVars

GetMagnetic ==
    /\ eng' = getMagnetic(eng).obj
    /\ twin' = getMagnetic(twin).obj
    /\ last' = Call("getMagnetic", <<>>, getMagnetic(eng).ret)
    /\ lastTwin' = Call("getMagnetic", <<>>, getMagnetic(twin).ret)
    /\ UNCHANGED <<magIn, oriSeen, nTrusted, folded>>
    /\ UNCHANGED akmVars

GetCalibrationGoodness ==
    /\ eng' = getCalibrationGoodness(eng).obj
    /\ twin' = getCalibrationGoodness(twin).obj
    /\ last' = Call("getCalibrationGoodness", <<>>, getCalibrationGoodness(eng).ret)
    /\ lastTwin' = Call("getCalibrationGoodness", <<>>, getCalibrationGoodness(twin).ret)
    /\ UNCHANGED <<magIn, oriSeen, nTrusted, folded>>
    /\ UNCHANGED akmVars

Recalibrate ==
    /\ eng' = recalibrate(eng).obj
    /\ twin' = recalibrate(twin).obj
    /\ last' = Call("recalibrate", eng.accCalibrator.g, recalibrate(eng).ret)
    /\ lastTwin' = Call("recalibrate", twin.accCalibrator.g, recalibrate(twin).ret)
    /\ nTrusted' = 0
    /\ folded' = None
    /\ UNCHANGED <<magIn, oriSeen>>
    /\ UNCHANGED akmVars

ChangeFormFactor ==
    \E ff \in FormFactors :
        /\ eng' = changeFormFactor(eng, ff).obj
        /\ twin' = changeFormFactor(twin, ff).obj
        /\ last' = Call("changeFormFactor", <<>>, changeFormFactor(eng, ff).ret)
        /\ lastTwin' = Call("changeFormFactor", <<>>, changeFormFactor(twin, ff).ret)
        /\ UNCHANGED <<magIn, oriSeen, nTrusted, folded>>
        /\ UNCHANGED akmVars

Next ==
    \/ Start
    \/ Stop
    \/ PushAcceleration
    \/ PushMagnetic
    \/ GetOrientation
    \/ GetMagnetic
    \/ GetCalibrationGoodness
    \/ Recalibrate
    \/ ChangeFormFactor

Spec == Init /\ [][Next]_vars

\* the accelerometer path alone, fed samples at the magnitude of gravity
NextGravity ==
    \/ Start
    \/ Stop
    \/ PushGravity
    \/ GetCalibrationGoodness
    \/ Recalibrate

SpecGravity == Init /\ [][NextGravity]_vars

(***************************************************************************)
(* The wrappers, called in any order                                       *)
(***************************************************************************)

engVars == <<eng, twin, last, lastTwin, magIn, oriSeen, nTrusted, folded>>

\* self = new Akmtastic(...) overwrites the handle: an object it pointed to
\* stays allocated with nothing pointing to it
Akm_Init ==
    /\ self = NULL \/ Len(lost) < MaxLost
    /\ \E b \in BOOLEAN :
          /\ self' = AKM_Init(self, b).self
          /\ akm' = AkmCall("AKM_Init", AKM_Init(self, b))
    /\ lost' = IF self # NULL THEN Append(lost, self[1].started) ELSE lost
    /\ UNCHANGED engVars

Akm_Release ==
    /\ self' = AKM_Release(self).self
    /\ akm' = AkmCall("AKM_Release", AKM_Release(self))
    /\ UNCHANGED <<lost, engVars>>

Akm_Start ==
    \E path \in Paths :
        /\ self' = AKM_Start(self, path).self
        /\ akm' = AkmCall("AKM_Start", AKM_Start(self, path))
        /\ UNCHANGED <<lost, engVars>>

Akm_Stop ==
    \E path \in Paths :
        /\ self' = AKM_Stop(self, path).self
        /\ akm' = AkmCall("AKM_Stop", AKM_Stop(self, path))
        /\ UNCHANGED <<lost, engVars>>

Akm_SaveAcc ==
    \E a \in WrapperAccInputs :
        /\ self' = AKM_SaveAcc(self, a[1], a[2], a[3], a[4]).self
        /\ akm' = AkmCall("AKM_SaveAcc", AKM_SaveAcc(self, a[1], a[2], a[3], a[4]))
        /\ UNCHANGED <<lost, engVars>>

Akm_SaveMag ==
    \E m \in MagInputs, st \in Statuses, pd \in Periods :
        /\ self' = AKM_SaveMag(self, m[1], m[2], m[3], st, pd).self
        /\ akm' = AkmCall("AKM_SaveMag", AKM_SaveMag(self, m[1], m[2], m[3], st, pd))
        /\ UNCHANGED <<lost, engVars>>

Akm_GetOrientationValues ==
    /\ self' = AKM_GetOrientationValues(self).self
    /\ akm' = AkmCall("AKM_GetOrientationValues", AKM_GetOrientationValues(self))
    /\ UNCHANGED <<lost, engVars>>

Akm_GetMagneticValues ==
    /\ self' = AKM_GetMagneticValues(self).self
    /\ akm' = AkmCall("AKM_GetMagneticValues", AKM_GetMagneticValues(self))
    /\ UNCHANGED <<lost, engVars>>

Akm_GetCalibrationGoodness ==
    /\ self' = AKM_GetCalibrationGoodness(self).self
    /\ akm' = AkmCall("AKM_GetCalibrationGoodness", AKM_GetCalibrationGoodness(self))
    /\ UNCHANGED <<lost, engVars>>

Akm_ForceReCalibration ==
    /\ self' = AKM_ForceReCalibration(self).self
    /\ akm' = AkmCall("AKM_ForceReCalibration", AKM_ForceReCalibration(self))
    /\ UNCHANGED <<lost, engVars>>

Akm_ChangeFormFactor ==
    \E ff \in FormFactors :
        /\ self' = AKM_ChangeFormFactor(self, ff).self
        /\ akm' = AkmCall("AKM_ChangeFormFactor", AKM_ChangeFormFactor(self, ff))
        /\ UNCHANGED <<lost, engVars>>

NextAKM ==
    \/ Akm_Init
    \/ Akm_Release
    \/ Akm_Start
    \/ Akm_Stop
    \/ Akm_SaveAcc
    \/ Akm_SaveMag
    \/ Akm_GetOrientationValues
    \/ Akm_GetMagneticValues
    \/ Akm_GetCalibrationGoodness
    \/ Akm_ForceReCalibration
    \/ Akm_ChangeFormFactor

SpecAKM == Init /\ [][NextAKM]_vars


(***************************************************************************)
(* Properties                                                              *)
(***************************************************************************)

\* C1: start fails (-1) exactly when the engine is already started and stop
\* fails exactly when it is not; a failing call leaves started as it was, a
\* successful start sets it and a successful stop clears it.
C1_StartStop ==
    [][/\ last'.op = "start" =>
            /\ last'.ret \in {0, -1}
            /\ last'.ret = -1 <=> eng.started
            /\ last'.ret = -1 => eng'.started = eng.started
            /\ last'.ret = 0 => eng'.started
       /\ last'.op = "stop" =>
            /\ last'.ret \in {0, -1}
            /\ last'.ret = -1 <=> ~eng.started
            /\ last'.ret = -1 => eng'.started = eng.started
            /\ last'.ret = 0 => ~eng'.started]_vars

\* a second start in a row has failed
C1_Witness == last.op = "start" /\ last.ret = -1 /\ eng.started

\* C2 (as claimed): right after pushAcceleration the cached corrected
\* acceleration is the converted, smoothed sample itself, the correction
\* being the identity as long as nothing has been fitted.
C2_IdentityFix == last.op = "pushAcceleration" => eng.accVal = last.args

\* C3: a getOrientation call made when getOrientation has already been called
\* since the last push returns what that earlier call returned, whatever
\* other calls came in between.
C3_OrientationStable ==
    (last.op = "getOrientation" /\ last.args # None) => last.ret = last.args

\* getOrientation has returned for the second time since a pushMagnetic
C3_Witness ==
    /\ last.op = "getOrientation"
    /\ last.args # None
    /\ magIn # None
    /\ eng.magVal # Vector_zero

\* C4 (as claimed): the orientation cache is marked clean only if
\* getOrientation has been called since the latest push and since
\* construction.
C4_CleanOnlyAfterGet == eng.oriCalculated => oriSeen # None

\* the points fix is compared on
FixPoints == {accSample(a[1], a[2], a[3], a[4]) : a \in AccInputs \cup GravityInputs}

\* C5: the reset of the accelerometer calibrator clears g and leaves
\* translation and scale, hence the result of fix on every point, as they
\* were.
C5_ResetKeepsCorrection ==
    [][last'.op = "recalibrate" =>
          /\ eng'.accCalibrator.g = Vector_zero
          /\ eng'.accCalibrator.translation = eng.accCalibrator.translation
          /\ eng'.accCalibrator.scale = eng.accCalibrator.scale
          /\ \A p \in FixPoints :
                AccCalibrator_fix(eng'.accCalibrator, p)
                    = AccCalibrator_fix(eng.accCalibrator, p)]_vars

\* the calibrator has been reset while its g was not zero
C5_Witness ==
    /\ last.op = "recalibrate"
    /\ last.args # Vector_zero
    /\ eng.accCalibrator.g = Vector_zero

\* C6: recalibrate sets g to zero and leaves the magnetometer calibrator, the
\* cached magnetic vector, the cached orientation with its flag and the
\* started flag as they were.
C6_RecalibrateFrame ==
    [][last'.op = "recalibrate" =>
          /\ eng'.accCalibrator.g = Vector_zero
          /\ eng'.magCalibrator = eng.magCalibrator
          /\ eng'.magVal = eng.magVal
          /\ getMagnetic(eng').ret = getMagnetic(eng).ret
          /\ eng'.oriVal = eng.oriVal
          /\ eng'.oriCalculated = eng.oriCalculated
          /\ eng'.started = eng.started]_vars

\* recalibrate has run on a started engine that holds a magnetic vector and
\* a clean orientation cache
C6_Witness ==
    /\ last.op = "recalibrate"
    /\ last.args # Vector_zero
    /\ eng.magVal # Vector_zero
    /\ eng.oriCalculated
    /\ oriSeen # None
    /\ eng.started

\* C7 (as claimed): the cached magnetic vector is the zero vector before any
\* pushMagnetic and afterwards (sample + translation) * scale, with the
\* magnetometer calibrator's translation and scale, of the latest sample.
C7_MagneticIsFix ==
    eng.magVal = IF magIn = None THEN Vector_zero
                 ELSE Calibrator_fix(eng.magCalibrator, magIn)

PushOps == {"pushAcceleration", "pushMagnetic"}

\* C8 (as claimed): a push on an engine that is not started fails and changes
\* nothing of the engine; a push on a started engine succeeds.
C8_PushNeedsStart ==
    [][last'.op \in PushOps =>
          IF eng.started THEN last'.ret = 0
          ELSE last'.ret = -1 /\ eng' = eng]_vars

\* C9 (as claimed): once REFRESH pushes in a row of a vector of about the
\* magnitude of gravity have each been trusted, the calibration goodness is
\* above its minimum.
C9_GoodnessRises ==
    (nTrusted >= REFRESH /\ Vector_length(eng.accCalibrator.g) > ToFloat(9))
        => getCalibrationGoodness(eng).ret > 0

\* what a caller can tell of an engine
Observable(e) ==
    [accCalibrator |-> e.accCalibrator,
     accVal        |-> e.accVal,
     magCalibrator |-> e.magCalibrator,
     magVal        |-> e.magVal,
     orientation   |-> getOrientation(e).ret,
     magnetic      |-> getMagnetic(e).ret,
     goodness      |-> getCalibrationGoodness(e).ret,
     started       |-> e.started]

\* C10: two engines given the same calls, the status and period of
\* pushMagnetic apart, hold the same vectors and calibrator state, report the
\* same orientation and goodness and have returned the same values.
C10_StatusPeriodIgnored ==
    /\ Observable(eng) = Observable(twin)
    /\ last.op = lastTwin.op
    /\ last.ret = lastTwin.ret

\* the two engines have taken a pushMagnetic of a non-zero sample with
\* different status and different period
C10_Witness ==
    /\ last.op = "pushMagnetic"
    /\ last.args[1] # lastTwin.args[1]
    /\ last.args[2] # lastTwin.args[2]
    /\ eng.magVal # Vector_zero

\* C11: whatever getOrientation returns has its azimuth in [0, 360), its
\* pitch in [-90, 90] and its roll in [-180, 180] degrees, before any push as
\* well as after pushes of any samples.
C11_OrientationRanges ==
    last.op = "getOrientation" =>
        /\ 0 <= last.ret[1] /\ last.ret[1] < ToFloat(360)
        /\ ToFloat(-90) <= last.ret[2] /\ last.ret[2] <= ToFloat(90)
        /\ ToFloat(-180) <= last.ret[3] /\ last.ret[3] <= ToFloat(180)

\* getOrientation has returned after a push of a magnetic vector with a
\* negative component and a push of an acceleration
C11_Witness ==
    /\ last.op = "getOrientation"
    /\ eng.magVal[3] < 0
    /\ eng.accCalibrator.g # Vector_zero
    /\ last.args = None

\* C12 (as claimed): when a raw sample with three different components has
\* been pushed and changeFormFactor has been called, pushing the same sample
\* again after changeFormFactor gives a cached vector different from the one
\* held, for at least one of two form factors (two form factors that map the
\* axes differently cannot both be the mapping the held vector was made with).
C12_FormFactorTakesEffect ==
    \A m \in {i \in MagInputs : i[1] # i[2] /\ i[2] # i[3] /\ i[1] # i[3]} :
        (last.op = "changeFormFactor" /\ magIn = magSample(m[1], m[2], m[3])) =>
            \A st \in Statuses, pd \in Periods :
                \E ff \in FormFactors :
                    pushMagnetic(changeFormFactor(eng, ff).obj,
                                 m[1], m[2], m[3], st, pd).obj.magVal # eng.magVal

\* C13: AccCalibrator::push hands the updated g, and nothing else, to
\* Calibrator::push exactly when val and g have non-zero length, the lengths
\* differ by less than 0.05 and the dot product of the normalized vectors is
\* above 0.95; when a length is zero nothing is handed over, translation and
\* scale stay as they were and pushAcceleration still returns 0.
C13_TrustGate ==
    [][last'.op = "pushAcceleration" =>
          LET val == last'.args
              g1  == eng'.accCalibrator.g
              al  == Vector_length(val)
              gl  == Vector_length(g1)
          IN  /\ folded' =
                    IF /\ al # 0
                       /\ gl # 0
                       /\ Abs(al - gl) < (5 * Unit) \div 100
                       /\ Vector_dot(Vector_divide(val, al), Vector_divide(g1, gl))
                              > (95 * Unit) \div 100
                    THEN g1 ELSE None
              /\ (al = 0 \/ gl = 0) =>
                    /\ folded' = None
                    /\ eng'.accCalibrator.translation = eng.accCalibrator.translation
                    /\ eng'.accCalibrator.scale = eng.accCalibrator.scale
                    /\ last'.ret = 0]_vars

\* a push has been trusted and has handed over a g that differs from the
\* sample
C13_Witness ==
    /\ last.op = "pushAcceleration"
    /\ folded # None
    /\ folded # last.args
    /\ folded = eng.accCalibrator.g

\* C14: g is zero at construction and after recalibrate; every
\* pushAcceleration, trusted or not, zero-length or not, sets g to
\* 0.8 * g + 0.2 * val; no other call changes g.
C14_GravityRecurrence ==
    /\ eng.accCalibrator.g = Vector_zero
    /\ [][/\ last'.op = "pushAcceleration" =>
                eng'.accCalibrator.g =
                    Vector_add(Vector_multiply(eng.accCalibrator.g, (8 * Unit) \div 10),
                               Vector_multiply(last'.args, (2 * Unit) \div 10))
          /\ last'.op = "recalibrate" => eng'.accCalibrator.g = Vector_zero
          /\ last'.op \notin {"pushAcceleration", "recalibrate"} =>
                eng'.accCalibrator.g = eng.accCalibrator.g]_vars

\* a push of a zero-length sample has left a g that is not zero
C14_Witness ==
    /\ last.op = "pushAcceleration"
    /\ last.args = Vector_zero
    /\ eng.accCalibrator.g # Vector_zero
    /\ folded = None

\* C15: pushAcceleration changes nothing but the accelerometer calibrator,
\* the cached acceleration and the orientation flag; pushMagnetic changes
\* nothing but the magnetometer calibrator, the cached magnetic vector and
\* the orientation flag.
C15_SensorPathsApart ==
    [][/\ last'.op = "pushAcceleration" =>
            /\ eng'.magCalibrator = eng.magCalibrator
            /\ eng'.magVal = eng.magVal
            /\ eng'.oriVal = eng.oriVal
            /\ eng'.started = eng.started
            /\ eng'.fd = eng.fd
       /\ last'.op = "pushMagnetic" =>
            /\ eng'.accCalibrator = eng.accCalibrator
            /\ eng'.accVal = eng.accVal
            /\ eng'.oriVal = eng.oriVal
            /\ eng'.started = eng.started
            /\ eng'.fd = eng.fd
       /\ last'.op \in PushOps => ~eng'.oriCalculated]_vars

\* a pushAcceleration has run on an engine that holds a magnetic vector
C15_Witness ==
    /\ last.op = "pushAcceleration"
    /\ last.args # Vector_zero
    /\ eng.magVal # Vector_zero
    /\ eng.accCalibrator.g # Vector_zero

\* everything of an engine but started
Unstarted(e) == [e EXCEPT !.started = FALSE]

\* C16: start and stop, failing or not, change nothing of the engine but
\* started, and no other call changes started.
C16_LifecycleApart ==
    [][/\ last'.op \in {"start", "stop"} => Unstarted(eng') = Unstarted(eng)
       /\ last'.op \notin {"start", "stop"} => eng'.started = eng.started]_vars

\* a stop has succeeded on an engine that holds a gravity estimate and a
\* magnetic vector
C16_Witness ==
    /\ last.op = "stop"
    /\ last.ret = 0
    /\ eng.accCalibrator.g # Vector_zero
    /\ eng.magVal # Vector_zero

\* the wrappers that check the handle before they do anything
GuardedOps ==
    {"AKM_Release", "AKM_Start", "AKM_Stop", "AKM_SaveAcc", "AKM_SaveMag",
     "AKM_GetOrientationValues", "AKM_GetMagneticValues",
     "AKM_GetCalibrationGoodness", "AKM_ForceReCalibration",
     "AKM_ChangeFormFactor"}

\* what a wrapper reports when there is no instance
Failure(op) ==
    CASE op \in {"AKM_Release", "AKM_ForceReCalibration"} -> <<>>
      [] op = "AKM_GetCalibrationGoodness" -> <<0>>
      [] OTHER -> <<-1>>

\* C17: a wrapper other than AKM_Init called while the handle is null does not
\* use the instance, leaves the handle null and everything else alone, and
\* reports failure (-1; 0 for AKM_GetCalibrationGoodness; nothing for
\* AKM_ForceReCalibration and AKM_Release).  After AKM_Release the handle is
\* null, and the object it deleted was left stopped by its destructor.  An
\* AKM_Start that directly follows an AKM_Init succeeds.
C17_HandleGuard ==
    [][ /\ (self = NULL /\ akm'.op \in GuardedOps) =>
              /\ ~akm'.used
              /\ self' = NULL
              /\ lost' = lost
              /\ akm'.ret = Failure(akm'.op)
              /\ akm'.gone = <<>>
              /\ akm'.data = <<>>
        /\ akm'.op = "AKM_Release" =>
              /\ self' = NULL
              /\ self # NULL =>
                    /\ akm'.gone # <<>>
                    /\ akm'.gone[1] = self[1]
                    /\ ~akm'.gone[2].started
                    /\ akm'.gone[2].fd = -1
        /\ (akm.op = "AKM_Init" /\ akm'.op = "AKM_Start") =>
              /\ akm'.ret = <<0>>
              /\ self'[1].started
      ]_vars

\* C17 happens: AKM_Release has just deleted an engine that was started, and
\* its destructor stopped it
C17_Witness ==
    /\ akm.op = "AKM_Release"
    /\ akm.gone # <<>>
    /\ akm.gone[1].started
    /\ ~akm.gone[2].started
    /\ self = NULL

\* C18: no engine object is allocated other than the one the handle points
\* to: none is lost
C18_SingleInstance == lost = <<>>

====
